---- MODULE Spec2Model ----
(***************************************************************************)
(* A model of canbus.js: the slcan (serial line CAN) interface.  Strings   *)
(* are sequences of one-character strings, so that substr, concatenation   *)
(* and the hexadecimal conversions are computed as the JavaScript does.    *)
(***************************************************************************)
EXTENDS Integers, Sequences, FiniteSets, TLC

VARIABLES
    _recv_str,      \* this._recv_str: the characters of the command in progress
    _recv_count,    \* this._recv_count
    delivered,      \* the frames handed to this.recvFrameCallback, in order
    uncaught,       \* what _serialRecvCallback calls have thrown, in order
    wire,           \* bytes the serial device has sent and chrome.serial has not yet delivered
    fed,            \* every byte passed to _serialRecvCallback so far, in order
    now,            \* Date.now()
    str,            \* the argument of a direct _parseFrame call
    parsed,         \* its outcome
    frame,          \* the argument of a direct _packFrame call
    packed,         \* its outcome
    inst,           \* the slcan instances of the application, by name
    listeners,      \* the listeners of chrome.serial.onReceive: the instance each is bound to
    pending,        \* chrome.serial.connect requests not yet answered: the instance of each callback
    conns,          \* the serial connections, by connectionId: owner, bytes to come, bytes received
    written,        \* the chrome.serial.send calls made, in order
    sends           \* the send calls made, in order, each with how it ended

\* the state of chrome.serial and of the instances that use it
ovars == <<inst, listeners, pending, conns, written, sends>>

vars == <<_recv_str, _recv_count, delivered, uncaught, wire, fed, now,
          str, parsed, frame, packed, ovars>>

----------------------------------------------------------------------------
(* JavaScript values and string primitives *)

undefined == "undefined"

\* the outcome of a call that has not been made
none == [called |-> FALSE]

CR == "\r"

\* StrWhiteSpaceChar, as far as it occurs in the inputs: Number() strips it
WhiteSpace == {" ", "\t", "\n"}

LowerDigits == <<"0","1","2","3","4","5","6","7","8","9","a","b","c","d","e","f">>

UpperDigits == <<"0","1","2","3","4","5","6","7","8","9","A","B","C","D","E","F">>

DecimalDigit == {LowerDigits[i] : i \in 1..10}

HexDigit == {LowerDigits[i] : i \in 1..16} \cup {UpperDigits[i] : i \in 1..16}

DigitValue(c) == CHOOSE v \in 0..15 : LowerDigits[v + 1] = c \/ UpperDigits[v + 1] = c

Min(a, b) == IF a < b THEN a ELSE b

\* String.prototype.substr(start, length), start >= 0
substr(s, start, length) == SubSeq(s, start + 1, Min(start + length, Len(s)))

\* String.prototype.substr(start) with start possibly negative
substrFrom(s, start) ==
    LET from == IF start < 0 THEN (IF Len(s) + start < 0 THEN 0 ELSE Len(s) + start)
                ELSE start
    IN  SubSeq(s, from + 1, Len(s))

\* String.prototype.toUpperCase
toUpperCase(s) ==
    [i \in 1..Len(s) |->
        IF \E v \in 0..15 : LowerDigits[v + 1] = s[i]
        THEN UpperDigits[DigitValue(s[i]) + 1]
        ELSE IF s[i] = "t" THEN "T" ELSE IF s[i] = "r" THEN "R" ELSE s[i]]

\* toString as it would be with upper-case digits
RECURSIVE toStringUpper(_, _)
toStringUpper(n, radix) ==
    IF n < radix THEN <<UpperDigits[n + 1]>>
    ELSE toStringUpper(n \div radix, radix) \o <<UpperDigits[(n % radix) + 1]>>

\* Number.prototype.toString(radix) of a non-negative integer
RECURSIVE toString(_, _)
toString(n, radix) ==
    IF n < radix THEN <<LowerDigits[n + 1]>>
    ELSE toString(n \div radix, radix) \o <<LowerDigits[(n % radix) + 1]>>

\* StringToNumber strips trailing white space (leading white space too, but
\* every string the program converts starts with "0x" or is one character)
RECURSIVE StrTrim(_)
StrTrim(s) ==
    IF s # <<>> /\ s[Len(s)] \in WhiteSpace THEN StrTrim(SubSeq(s, 1, Len(s) - 1))
    ELSE IF s # <<>> /\ s[1] \in WhiteSpace THEN StrTrim(Tail(s))
    ELSE s

RECURSIVE HexValue(_)
HexValue(s) ==
    IF s = <<>> THEN 0
    ELSE 16 * HexValue(SubSeq(s, 1, Len(s) - 1)) + DigitValue(s[Len(s)])

\* isNaN(Number("0x" + s)): a HexIntegerLiteral needs one hex digit at least,
\* and nothing but hex digits up to the stripped trailing white space
isNaNHex(s) ==
    LET t == StrTrim(<<"0", "x">> \o s)
    IN  Len(t) < 3 \/ \E i \in 3..Len(t) : t[i] \notin HexDigit

\* Number("0x" + s) when it is a number
NumberHex(s) ==
    LET t == StrTrim(<<"0", "x">> \o s)
    IN  HexValue(SubSeq(t, 3, Len(t)))

\* isNaN(Number(s)) for s of at most one character: the empty string and
\* white space convert to 0, a decimal digit to its value
isNaNDec(s) ==
    LET t == StrTrim(s)
    IN  t # <<>> /\ t[1] \notin DecimalDigit

\* Number(s) for s of at most one character, when it is a number
NumberDec(s) ==
    LET t == StrTrim(s)
    IN  IF t = <<>> THEN 0 ELSE DigitValue(t[1])

----------------------------------------------------------------------------
(* canbus.frame and the slcan constants *)

canbus_frame(id) ==
    [id |-> id, dlc |-> 0, timestamp |-> undefined, data |-> <<>>,
     is_ext_id |-> FALSE, is_remote |-> FALSE]

STD_ID_LEN == 3

EXT_ID_LEN == 8

\* what a function call ends with: a value returned or a value thrown
Return(v) == [called |-> TRUE, ok |-> TRUE, value |-> v]

Throw(e) == [called |-> TRUE, ok |-> FALSE, error |-> e]

BadFrameType == [msg |-> "Invalid slcand frame! (bad frame type char)"]

BadId == [msg |-> "Invalid ID value"]

BadDlc == [msg |-> "Invalid DLC value"]

BadDataByte(i) == [msg |-> "Invalid data byte at position ", i |-> i]

\* frame.data[i].toString with frame.data[i] undefined
TypeError == [msg |-> "TypeError: Cannot read property 'toString' of undefined"]

----------------------------------------------------------------------------
(* _parseFrame *)

\* the for loop of _parseFrame from index i on, data being the bytes pushed so far
RECURSIVE parseData(_, _, _, _, _)
parseData(s, is_ext_id, dlc, i, data) ==
    IF ~(i < dlc) THEN Return(data)
    ELSE LET pos == IF is_ext_id THEN 2 + EXT_ID_LEN + i * 2
                    ELSE 2 + STD_ID_LEN + i * 2
             b   == substr(s, pos, 2)
         IN  IF isNaNHex(b) THEN Throw(BadDataByte(i))
             ELSE parseData(s, is_ext_id, dlc, i + 1, Append(data, NumberHex(b)))

_parseFrame(s) ==
    IF s = <<>> \/ s[1] \notin {"t", "r", "T", "R"} THEN Throw(BadFrameType)
    ELSE
    LET is_ext_id == s[1] \in {"T", "R"}
        is_remote == s[1] \in {"r", "R"}
        id_str    == IF is_ext_id THEN substr(s, 1, EXT_ID_LEN)
                     ELSE substr(s, 1, STD_ID_LEN)
        dlc_str   == IF is_ext_id THEN substr(s, 1 + EXT_ID_LEN, 1)
                     ELSE substr(s, 1 + STD_ID_LEN, 1)
    IN  IF isNaNHex(id_str) THEN Throw(BadId)
        ELSE IF isNaNDec(dlc_str) \/ NumberDec(dlc_str) < 0 \/ NumberDec(dlc_str) > 8
        THEN Throw(BadDlc)
        ELSE
        LET id   == NumberHex(id_str)
            dlc  == NumberDec(dlc_str)
            data == parseData(s, is_ext_id, dlc, 0, <<>>)
            res  == canbus_frame(id)
        IN  IF ~data.ok THEN data
            ELSE Return([id |-> res.id, timestamp |-> res.timestamp,
                         is_ext_id |-> res.is_ext_id,
                         id_ext_id |-> is_ext_id,
                         is_remote |-> is_remote,
                         dlc |-> dlc,
                         data |-> data.value])

----------------------------------------------------------------------------
(* _packFrame *)

\* the for loop of _packFrame from index i on, res being the string so far
RECURSIVE packData(_, _, _)
packData(f, i, res) ==
    IF ~(i < f.dlc) THEN Return(res)
    ELSE IF i + 1 > Len(f.data) THEN Throw(TypeError)
    ELSE LET byte_str == <<"0">> \o toUpperCase(toString(f.data[i + 1], 16))
         IN  packData(f, i + 1, res \o substrFrom(byte_str, Len(byte_str) - 2))

_packFrame(f) ==
    LET res0   == IF f.is_remote THEN <<"r">> ELSE <<"t">>
        res1   == IF f.is_ext_id THEN toUpperCase(res0) ELSE res0
        id_str == <<"0","0","0","0","0","0","0">> \o toString(f.id, 16)
        res2   == IF f.is_ext_id
                  THEN res1 \o substrFrom(id_str, Len(id_str) - EXT_ID_LEN)
                  ELSE res1 \o substrFrom(id_str, Len(id_str) - STD_ID_LEN)
        res3   == res2 \o toString(f.dlc, 10)
        res4   == packData(f, 0, res3)
    IN  IF ~res4.ok THEN res4 ELSE Return(res4.value \o <<CR>>)

----------------------------------------------------------------------------
(* _serialRecvCallback *)

\* an slcan instance as the receive path sees it; calls are the invocations
\* of this.recvFrameCallback, each with the frame it was given
slcan(recv_str, recv_count, calls) ==
    [_recv_str |-> recv_str, _recv_count |-> recv_count, calls |-> calls]

\* the for loop as it would be with the frame handed over a second time
RECURSIVE recvLoopTwice(_, _, _, _)
recvLoopTwice(self, data, i, t) ==
    IF ~(i < Len(data)) THEN [self |-> self, thrown |-> <<>>]
    ELSE
    LET char    == data[i + 1]
        counted == [self EXCEPT !._recv_count = @ + 1]
    IN  IF char = CR
        THEN LET tmp   == counted._recv_str
                 reset == [counted EXCEPT !._recv_str = <<>>, !._recv_count = 0]
                 fr    == _parseFrame(tmp)
                 f     == [fr.value EXCEPT !.timestamp = t]
             IN  IF ~fr.ok THEN [self |-> reset, thrown |-> <<fr.error>>]
                 ELSE recvLoopTwice([reset EXCEPT !.calls = @ \o <<f, f>>],
                                    data, i + 1, t)
        ELSE recvLoopTwice([counted EXCEPT !._recv_str = @ \o <<char>>],
                           data, i + 1, t)

\* the for loop as it would be with the buffer reset after the parse, not
\* before it
RECURSIVE recvLoopLateReset(_, _, _, _)
recvLoopLateReset(self, data, i, t) ==
    IF ~(i < Len(data)) THEN [self |-> self, thrown |-> <<>>]
    ELSE
    LET char    == data[i + 1]
        counted == [self EXCEPT !._recv_count = @ + 1]
    IN  IF char = CR
        THEN LET tmp   == counted._recv_str
                 reset == [counted EXCEPT !._recv_str = <<>>, !._recv_count = 0]
                 fr    == _parseFrame(tmp)
             IN  IF ~fr.ok THEN [self |-> counted, thrown |-> <<fr.error>>]
                 ELSE recvLoopLateReset([reset EXCEPT !.calls =
                                   Append(@, [fr.value EXCEPT !.timestamp = t])],
                               data, i + 1, t)
        ELSE recvLoopLateReset([counted EXCEPT !._recv_str = @ \o <<char>>],
                               data, i + 1, t)

\* the for loop of _serialRecvCallback from index i on, at time t.  A throw
\* of _parseFrame leaves the loop and the callback: the bytes of data after
\* index i are never looked at
RECURSIVE recvLoop(_, _, _, _)
recvLoop(self, data, i, t) ==
    IF ~(i < Len(data)) THEN [self |-> self, thrown |-> <<>>]
    ELSE
    LET char    == data[i + 1]
        counted == [self EXCEPT !._recv_count = @ + 1]
    IN  IF char = CR
        THEN LET tmp   == counted._recv_str
                 reset == [counted EXCEPT !._recv_str = <<>>, !._recv_count = 0]
                 fr    == _parseFrame(tmp)
             IN  IF ~fr.ok THEN [self |-> reset, thrown |-> <<fr.error>>]
                 ELSE recvLoop([reset EXCEPT !.calls =
                                   Append(@, [fr.value EXCEPT !.timestamp = t])],
                               data, i + 1, t)
        ELSE recvLoop([counted EXCEPT !._recv_str = @ \o <<char>>], data, i + 1, t)

_serialRecvCallback(self, data, t) == recvLoop(self, data, 0, t)

----------------------------------------------------------------------------
(* The constructor, open, send, _serialWrite, _serialOpenCallback *)

\* the values this._conn takes: null, undefined (what chrome.serial.connect
\* returns: it answers through its callback), or the ConnectionInfo that
\* the callback is given
null == [type |-> "null"]

noValue == [type |-> "undefined"]

ConnectionInfo(id) == [type |-> "object", connectionId |-> id]

\* !v
falsy(v) == v.type \in {"null", "undefined"}

NotConnected == [msg |-> "Not connected to serial device"]

\* new canbus.slcan(dev_str, speed, recvFrameCallback)
new_slcan(dev_str, speed) ==
    [_dev_str |-> dev_str, _speed |-> speed, _conn |-> null,
     _recv_count |-> 0, _recv_str |-> <<>>, calls |-> <<>>]

\* open as it would be if chrome.serial.connect returned a handle
openWithHandle(self) == [self EXCEPT !._conn = ConnectionInfo(0)]

\* open, as far as the instance goes: the connect request and the listener
\* it adds are chrome.serial's state
open(self) == [self EXCEPT !._conn = noValue]

\* the chrome.serial.send call _serialWrite makes
_serialWrite(self, s) == [connectionId |-> self._conn.connectionId, data |-> s]

\* send: what it throws, or the chrome.serial.send calls it made
send(self, f) ==
    IF falsy(self._conn) THEN Throw(NotConnected)
    ELSE LET slcan_str == _packFrame(f)
         IN  IF ~slcan_str.ok THEN slcan_str
             ELSE Return(<<_serialWrite(self, slcan_str.value)>>)

\* _serialOpenCallback as it would be with the two commands in the other order
_serialOpenCallbackSwapped(self, conn) ==
    IF falsy(conn) THEN [self |-> self, writes |-> <<>>]
    ELSE LET connected == [self EXCEPT !._conn = conn]
         IN  [self   |-> connected,
              writes |-> <<_serialWrite(connected, <<"O", CR>>),
                           _serialWrite(connected,
                               <<"S">> \o toString(self._speed, 10) \o <<CR>>)>>]

\* _serialOpenCallback: the instance after it and the chrome.serial.send
\* calls it made
_serialOpenCallback(self, conn) ==
    IF falsy(conn) THEN [self |-> self, writes |-> <<>>]
    ELSE LET connected == [self EXCEPT !._conn = conn]
         IN  [self   |-> connected,
              writes |-> <<_serialWrite(connected,
                               <<"S">> \o toString(self._speed, 10) \o <<CR>>),
                           _serialWrite(connected, <<"O", CR>>)>>]

\* chrome.serial.onReceive fires: every listener is called with the event,
\* in the order they were added; what one throws is logged by the event
\* dispatch and the next is called all the same
RECURSIVE dispatch(_, _, _, _, _)
dispatch(insts, ls, k, data, t) ==
    IF k > Len(ls) THEN insts
    ELSE LET after == _serialRecvCallback(insts[ls[k]], data, t).self
         IN  \* (comparing makes TLC evaluate this call before the next one)
             IF after = insts[ls[k]] THEN dispatch(insts, ls, k + 1, data, t)
             ELSE dispatch([insts EXCEPT ![ls[k]] = after], ls, k + 1, data, t)

----------------------------------------------------------------------------
(* Bounds and inputs *)

\* calls of open in one behaviour
MaxOpens == 2

\* calls of send in one behaviour
MaxSends == 2

\* commands the devices send in one behaviour, over all connections
MaxLine == 2

\* commands the device sends in one behaviour
MaxCmds == 2

\* readings of the clock
MaxNow == 1

\* characters of the identifier part of a command given to _parseFrame
MaxIdChars == 3

\* two-character data pairs of a command given to _parseFrame, and bytes of
\* a frame given to _packFrame
MaxData == 8

\* all sequences over S of length at most n
SeqsUpTo(S, n) == UNION {[1..k -> S] : k \in 0..n}

\* the commands the device may send, without their terminator
StreamCmds ==
    { <<"t","1","2","3","1","A","B">>,
      <<"r","1","2","3","0">>,
      <<"r","1","2","3","5">>,
      <<"x">>,
      <<>> }

TypeParts == {<<"t">>, <<"r">>, <<"T">>, <<"R">>, <<"x">>, <<>>}

ExtPrefixes == {<<>>, <<"1","F","F","F","F">>, <<"2","F","F","F","F">>}

IdChars == {"1", "F", " ", "X"}

IdParts(type) ==
    {p \o q : p \in (IF type \in {<<"T">>, <<"R">>} THEN ExtPrefixes ELSE {<<>>}),
              q \in SeqsUpTo(IdChars, MaxIdChars)}

DlcParts == {<<>>, <<"0">>, <<"2">>, <<"8">>, <<"9">>}

Pairs == {<<"A","b">>, <<" ","1">>, <<"G","1">>}

DataParts ==
    {[i \in 1..k |-> p[2 - (i % 2)]] : p \in Pairs, k \in 0..(2 * MaxData)}

\* an identifier field of EXT_ID_LEN hex digits from 80000000 on is a number
\* the model's integers cannot hold
InModelRange(s) ==
    ~(/\ Len(s) > EXT_ID_LEN
      /\ s[1] \in {"T", "R"}
      /\ \A i \in 2..(1 + EXT_ID_LEN) : s[i] \in HexDigit
      /\ DigitValue(s[2]) > 7)

\* s is a command given to _parseFrame: a type part, an identifier part, a
\* DLC part and a data part, any of them possibly missing or malformed
ParseInput(s) ==
    /\ \E type \in TypeParts : \E id \in IdParts(type) :
           \E dlc \in DlcParts : \E data \in DataParts :
              s = type \o id \o dlc \o data
    /\ InModelRange(s)

PackIds == {0, 1, 291, 2047, 2048, 28036591, 536870911, 536870912}

Bytes == <<171, 205, 0, 255, 1, 16, 15, 128, 7>>

PackInputs ==
    {[id |-> id, dlc |-> dlc, timestamp |-> undefined, data |-> SubSeq(Bytes, 1, k),
      is_ext_id |-> e, is_remote |-> r] :
        id \in PackIds, dlc \in 0..8, k \in 0..MaxData, e \in BOOLEAN, r \in BOOLEAN}

\* the instances the application creates
Instances == {"a", "b"}

Speed == [i \in Instances |-> IF i = "a" THEN 6 ELSE 0]

\* the commands the device wired to an instance sends
DeviceCmds(i) ==
    IF i = "a" THEN {<<"t","1","2","3","0">>}
    ELSE {<<"t","4","5","6","1","A","B">>}

\* the frames the application sends
SendFrames ==
    {[id |-> 291, dlc |-> 1, timestamp |-> undefined, data |-> <<171>>,
      is_ext_id |-> FALSE, is_remote |-> FALSE],
     [id |-> 1, dlc |-> 0, timestamp |-> undefined, data |-> <<>>,
      is_ext_id |-> TRUE, is_remote |-> TRUE]}

\* chrome.serial and the instances before any call of open
Idle ==
    /\ inst = [i \in Instances |-> new_slcan(i, Speed[i])]
    /\ listeners = <<>>
    /\ pending = <<>>
    /\ conns = <<>>
    /\ written = <<>>
    /\ sends = <<>>

----------------------------------------------------------------------------
(* The receive path: the device sends commands, chrome.serial hands the   *)
(* bytes to _serialRecvCallback in chunks of any size                      *)

Init ==
    /\ _recv_str = <<>>
    /\ _recv_count = 0
    /\ delivered = <<>>
    /\ uncaught = <<>>
    /\ wire = <<>>
    /\ fed = <<>>
    /\ now = 0
    /\ str = <<>>
    /\ parsed = none
    /\ frame = canbus_frame(0)
    /\ packed = none
    /\ Idle

Terminators(s) == Cardinality({i \in 1..Len(s) : s[i] = CR})

DeviceSends ==
    /\ Terminators(fed \o wire) < MaxCmds
    /\ \E c \in StreamCmds : wire' = wire \o c \o <<CR>>
    /\ UNCHANGED <<_recv_str, _recv_count, delivered, uncaught, fed, now,
                   str, parsed, frame, packed, ovars>>

Receive ==
    \E n \in 1..Len(wire) :
        LET data == SubSeq(wire, 1, n)
            r    == _serialRecvCallback(slcan(_recv_str, _recv_count, delivered),
                                        data, now)
        IN  /\ _recv_str' = r.self._recv_str
            /\ _recv_count' = r.self._recv_count
            /\ delivered' = r.self.calls
            /\ uncaught' = uncaught \o r.thrown
            /\ wire' = SubSeq(wire, n + 1, Len(wire))
            /\ fed' = fed \o data
            /\ UNCHANGED <<now, str, parsed, frame, packed, ovars>>

Tick ==
    /\ now < MaxNow
    /\ now' = now + 1
    /\ UNCHANGED <<_recv_str, _recv_count, delivered, uncaught, wire, fed,
                   str, parsed, frame, packed, ovars>>

Next == DeviceSends \/ Receive \/ Tick

Spec == Init /\ [][Next]_vars

----------------------------------------------------------------------------
(* _parseFrame called on its own *)

ParseInit ==
    /\ _recv_str = <<>>
    /\ _recv_count = 0
    /\ delivered = <<>>
    /\ uncaught = <<>>
    /\ wire = <<>>
    /\ fed = <<>>
    /\ now = 0
    /\ ParseInput(str)
    /\ parsed = none
    /\ frame = canbus_frame(0)
    /\ packed = none
    /\ Idle

ParseFrame ==
    /\ ~parsed.called
    /\ parsed' = _parseFrame(str)
    /\ UNCHANGED <<_recv_str, _recv_count, delivered, uncaught, wire, fed, now,
                   str, frame, packed, ovars>>

ParseNext == ParseFrame

ParseSpec == ParseInit /\ [][ParseNext]_vars

----------------------------------------------------------------------------
(* _packFrame called on its own, and _parseFrame on what it returned *)

PackInit ==
    /\ _recv_str = <<>>
    /\ _recv_count = 0
    /\ delivered = <<>>
    /\ uncaught = <<>>
    /\ wire = <<>>
    /\ fed = <<>>
    /\ now = 0
    /\ str = <<>>
    /\ parsed = none
    /\ frame \in PackInputs
    /\ packed = none
    /\ Idle

PackFrame ==
    /\ ~packed.called
    /\ packed' = _packFrame(frame)
    /\ UNCHANGED <<_recv_str, _recv_count, delivered, uncaught, wire, fed, now,
                   str, parsed, frame, ovars>>

\* the round trip: the packed string without its trailing "\r", parsed
ParseBack ==
    /\ packed.called /\ packed.ok
    /\ ~parsed.called
    /\ str' = SubSeq(packed.value, 1, Len(packed.value) - 1)
    /\ parsed' = _parseFrame(str')
    /\ UNCHANGED <<_recv_str, _recv_count, delivered, uncaught, wire, fed, now,
                   frame, packed, ovars>>

PackNext == PackFrame \/ ParseBack

PackSpec == PackInit /\ [][PackNext]_vars

----------------------------------------------------------------------------
(* The application: two instances that open connections, send frames and  *)
(* receive what the devices at the other end send                         *)

\* the instance that opened connection c
Owner(c) == conns[c].owner

\* the connections an instance has opened
ConnsOf(i) == {c \in 1..Len(conns) : Owner(c) = i}

\* open has been called on the instance
HasOpened(i) == \E k \in 1..Len(listeners) : listeners[k] = i

\* a connect request of the instance has not been answered yet
IsPending(i) == \E k \in 1..Len(pending) : pending[k] = i

RECURSIVE SumLines(_)
SumLines(c) ==
    IF c = 0 THEN 0
    ELSE SumLines(c - 1) + Terminators(conns[c].got \o conns[c].rx)

Open ==
    /\ Len(listeners) < MaxOpens
    /\ \E i \in Instances :
          /\ inst' = [inst EXCEPT ![i] = open(inst[i])]
          /\ pending' = Append(pending, i)
          /\ listeners' = Append(listeners, i)
    /\ UNCHANGED <<_recv_str, _recv_count, delivered, uncaught, wire, fed, now,
                   str, parsed, frame, packed, conns, written, sends>>

\* chrome.serial answers a connect request: with a new connection, or with
\* undefined when the device could not be opened
OpenCallback ==
    \E k \in 1..Len(pending) : \E ok \in BOOLEAN :
        LET i    == pending[k]
            conn == IF ok THEN ConnectionInfo(Len(conns) + 1) ELSE noValue
            r    == _serialOpenCallback(inst[i], conn)
        IN  /\ inst' = [inst EXCEPT ![i] = r.self]
            /\ written' = written \o r.writes
            /\ conns' = IF ok THEN Append(conns, [owner |-> i, rx |-> <<>>, got |-> <<>>])
                        ELSE conns
            /\ pending' = SubSeq(pending, 1, k - 1) \o SubSeq(pending, k + 1, Len(pending))
            /\ UNCHANGED <<_recv_str, _recv_count, delivered, uncaught, wire, fed,
                           now, str, parsed, frame, packed, listeners, sends>>

Send ==
    /\ Len(sends) < MaxSends
    /\ \E i \in Instances : \E f \in SendFrames :
          LET r == send(inst[i], f)
          IN  /\ written' = IF r.ok THEN written \o r.value ELSE written
              /\ sends' = Append(sends, [self        |-> i,
                                         opened      |-> HasOpened(i),
                                         waiting     |-> IsPending(i),
                                         established |-> ConnsOf(i) # {},
                                         result      |-> r,
                                         wrote       |-> Len(written') - Len(written)])
    /\ UNCHANGED <<_recv_str, _recv_count, delivered, uncaught, wire, fed, now,
                   str, parsed, frame, packed, inst, listeners, pending, conns>>

\* the device at the other end of a connection sends a command
DeviceSendsOn ==
    /\ SumLines(Len(conns)) < MaxLine
    /\ \E c \in 1..Len(conns) : \E cmd \in DeviceCmds(Owner(c)) :
          conns' = [conns EXCEPT ![c].rx = @ \o cmd \o <<CR>>]
    /\ UNCHANGED <<_recv_str, _recv_count, delivered, uncaught, wire, fed, now,
                   str, parsed, frame, packed, inst, listeners, pending, written,
                   sends>>

\* chrome.serial.onReceive fires with the next bytes of a connection
OnReceive ==
    \E c \in 1..Len(conns) : \E n \in 1..Len(conns[c].rx) :
        LET data == SubSeq(conns[c].rx, 1, n)
        IN  /\ inst' = dispatch(inst, listeners, 1, data, now)
            /\ conns' = [conns EXCEPT ![c].rx = SubSeq(@, n + 1, Len(@)),
                                      ![c].got = @ \o data]
            /\ UNCHANGED <<_recv_str, _recv_count, delivered, uncaught, wire, fed,
                           now, str, parsed, frame, packed, listeners, pending,
                           written, sends>>

\* the application opens connections and sends frames
OpenNext == Open \/ OpenCallback \/ Send

OpenSpec == Init /\ [][OpenNext]_vars

\* the application opens connections and the devices send commands
EventNext == Open \/ OpenCallback \/ DeviceSendsOn \/ OnReceive

EventSpec == Init /\ [][EventNext]_vars

----------------------------------------------------------------------------
(* Vocabulary of the properties *)

\* the fields of a frame that are compared (all but timestamp)
Payload(f) == <<f.id, f.dlc, f.data, f.is_ext_id, f.is_remote>>

Payloads(fs) == [i \in 1..Len(fs) |-> Payload(fs[i])]

TypeChars == {"t", "r", "T", "R"}

HasType(s) == s # <<>> /\ s[1] \in TypeChars

\* the width of the identifier field the type character of s selects
IdLen(s) == IF s[1] \in {"T", "R"} THEN EXT_ID_LEN ELSE STD_ID_LEN

\* the largest identifier of that width: 29 bits, or 11
IdMax(ext) == IF ext THEN 536870911 ELSE 2047

\* the identifier field of s is all there and all hex digits
IdFieldOk(s) ==
    /\ Len(s) >= 1 + IdLen(s)
    /\ \A i \in 2..(1 + IdLen(s)) : s[i] \in HexDigit

\* the character after the identifier field is there and is one of 0..8
DlcOk(s) ==
    /\ Len(s) >= 2 + IdLen(s)
    /\ s[2 + IdLen(s)] \in DecimalDigit \ {"9"}

\* a frame honouring the invariants of the data model, id in range
ValidFrame(f) ==
    /\ f.dlc \in 0..8
    /\ f.id \in 0..IdMax(f.is_ext_id)
    /\ Len(f.data) = (IF f.is_remote THEN 0 ELSE f.dlc)

\* the receive path run on the same bytes, one byte per call
RECURSIVE OneBytePerCall(_, _, _, _)
OneBytePerCall(self, bytes, i, t) ==
    IF i > Len(bytes) THEN self
    ELSE LET after == _serialRecvCallback(self, <<bytes[i]>>, t).self
         IN  \* (comparing makes TLC evaluate this call before the next one)
             IF after = self THEN OneBytePerCall(self, bytes, i + 1, t)
             ELSE OneBytePerCall(after, bytes, i + 1, t)

----------------------------------------------------------------------------
(* The claims *)

\* C1: fault isolation.  When all that was received is a command on which
\* _parseFrame fails, its "\r", a command _parseFrame accepts and its "\r",
\* recvFrameCallback has been invoked exactly once, with the frame of the
\* accepted command, however the bytes were cut into chunks.
C1_FaultIsolation ==
    \A m \in StreamCmds : \A w \in StreamCmds :
        (/\ ~_parseFrame(m).ok
         /\ _parseFrame(w).ok
         /\ fed = m \o <<CR>> \o w \o <<CR>>)
        => /\ Len(delivered) = 1
           /\ Payload(delivered[1]) = Payload(_parseFrame(w).value)

\* C2: round trip.  For a frame honouring the data model's invariants with
\* its id in range, _packFrame returns a string, and _parseFrame of that
\* string without its "\r" returns a frame with the same id, dlc, data,
\* is_ext_id and is_remote.
C2_RoundTrip ==
    ValidFrame(frame) =>
        /\ packed.called => packed.ok
        /\ parsed.called => parsed.ok /\ Payload(parsed.value) = Payload(frame)

\* C3: chunk-boundary independence.  Whatever chunks the received bytes came
\* in, the frames delivered and the accumulation buffer are those of the
\* same bytes delivered one byte per call.
C3_ChunkIndependence ==
    LET ref == OneBytePerCall(slcan(<<>>, 0, <<>>), fed, 1, 0)
    IN  /\ Payloads(delivered) = Payloads(ref.calls)
        /\ _recv_str = ref._recv_str

\* C4: the frame _parseFrame returns has is_ext_id true exactly when the
\* command starts with T or R and is_remote true exactly when it starts
\* with r or R; a command starting with none of t, r, T, R (the empty one
\* too) fails with the bad-frame-type error.
C4_TypeChar ==
    parsed.called =>
        IF HasType(str)
        THEN parsed.ok => /\ parsed.value.is_ext_id = (str[1] \in {"T", "R"})
                          /\ parsed.value.is_remote = (str[1] \in {"r", "R"})
        ELSE ~parsed.ok /\ parsed.error = BadFrameType

\* C5: a remote command (r or R) made of a valid identifier field and a DLC
\* digit d in 0..8 and nothing more parses to a frame with dlc d, is_remote
\* true and no data.
C5_RemoteNoData ==
    (/\ parsed.called
     /\ HasType(str) /\ str[1] \in {"r", "R"}
     /\ IdFieldOk(str) /\ DlcOk(str)
     /\ Len(str) = 2 + IdLen(str)
     /\ NumberHex(substr(str, 1, IdLen(str))) <= IdMax(str[1] = "R"))
    => /\ parsed.ok
       /\ parsed.value.dlc = DigitValue(str[2 + IdLen(str)])
       /\ parsed.value.is_remote
       /\ parsed.value.data = <<>>

\* C6: for a remote frame _packFrame returns the type character, the
\* identifier field, the DLC digit and "\r" and nothing else, whatever dlc
\* and data are.
C6_PackRemote ==
    (packed.called /\ frame.is_remote) =>
        LET n == IF frame.is_ext_id THEN EXT_ID_LEN ELSE STD_ID_LEN
        IN  /\ packed.ok
            /\ Len(packed.value) = n + 3
            /\ packed.value[1] = (IF frame.is_ext_id THEN "R" ELSE "r")
            /\ packed.value[n + 2] = LowerDigits[frame.dlc + 1]
            /\ packed.value[n + 3] = CR

\* C7: encoding is total.  _packFrame returns a string and throws nothing
\* for every frame with boolean flags, a non-negative id and dlc in 0..8.
C7_PackTotal ==
    packed.called => packed.ok

\* C8: every frame _parseFrame returns has dlc in 0..8, as many data bytes
\* as dlc when it is a data frame, and an id within the 11 or 29 bits of
\* the command's type.
C8_ParsedInvariants ==
    (parsed.called /\ parsed.ok) =>
        /\ parsed.value.dlc \in 0..8
        /\ ~parsed.value.is_remote => Len(parsed.value.data) = parsed.value.dlc
        /\ parsed.value.id <= IdMax(str[1] \in {"T", "R"})

\* C9: when the identifier field of a command is incomplete or holds a
\* character that is no hex digit, _parseFrame fails with the bad-id error.
C9_BadIdentifier ==
    (parsed.called /\ HasType(str) /\ ~IdFieldOk(str)) =>
        ~parsed.ok /\ parsed.error = BadId

\* C10: with the identifier field in order, _parseFrame gets past the DLC
\* exactly when the character after the field is there and is one of 0..8;
\* otherwise it fails with the bad-DLC error.
C10_Dlc ==
    (parsed.called /\ HasType(str) /\ IdFieldOk(str)) =>
        IF DlcOk(str)
        THEN parsed.ok \/ parsed.error # BadDlc
        ELSE ~parsed.ok /\ parsed.error = BadDlc

\* the data pair of index i (from 0) of command s is two hex digits
PairOk(s, i) ==
    LET pos == 2 + IdLen(s) + 2 * i
    IN  /\ Len(s) >= pos + 2
        /\ s[pos + 1] \in HexDigit
        /\ s[pos + 2] \in HexDigit

\* a command of the grammar of the wire format, its id in range
WellFormed(s) ==
    /\ HasType(s) /\ IdFieldOk(s) /\ DlcOk(s)
    /\ NumberHex(substr(s, 1, IdLen(s))) <= IdMax(s[1] \in {"T", "R"})
    /\ LET d == DigitValue(s[2 + IdLen(s)])
       IN  IF s[1] \in {"r", "R"} THEN Len(s) = 2 + IdLen(s)
           ELSE /\ Len(s) = 2 + IdLen(s) + 2 * d
                /\ \A i \in 0..(d - 1) : PairOk(s, i)

\* C11: for a data command (t or T) with its identifier field and DLC digit
\* d in order, when one of the d data pairs is missing, cut short or not two
\* hex digits, _parseFrame fails with the bad-data-byte error naming such a
\* pair, and returns no frame.
C11_BadDataByte ==
    (/\ parsed.called
     /\ HasType(str) /\ str[1] \in {"t", "T"}
     /\ IdFieldOk(str) /\ DlcOk(str))
    => LET d   == DigitValue(str[2 + IdLen(str)])
           bad == {i \in 0..(d - 1) : ~PairOk(str, i)}
       IN  bad # {} => /\ ~parsed.ok
                       /\ \E i \in bad : parsed.error = BadDataByte(i)

\* C12: for a frame honouring the data model's invariants _packFrame returns
\* the type character, the id as 3 or 8 hex digits (its low-order digits,
\* zero-padded), the DLC digit, for a data frame one upper-case hex pair per
\* data byte, and one "\r", which is the last character and the only one.
C12_PackFormat ==
    (packed.called /\ ValidFrame(frame)) =>
        /\ packed.ok
        /\ LET v == packed.value
               n == IF frame.is_ext_id THEN EXT_ID_LEN ELSE STD_ID_LEN
               k == IF frame.is_remote THEN 0 ELSE frame.dlc
           IN  /\ Len(v) = n + 3 + 2 * k
               /\ v[1] = (IF frame.is_ext_id
                          THEN (IF frame.is_remote THEN "R" ELSE "T")
                          ELSE (IF frame.is_remote THEN "r" ELSE "t"))
               /\ \A j \in 1..n :
                     /\ v[1 + j] \in HexDigit
                     /\ DigitValue(v[1 + j]) = (frame.id \div (16 ^ (n - j))) % 16
               /\ v[n + 2] = LowerDigits[frame.dlc + 1]
               /\ \A i \in 1..k :
                     /\ v[n + 1 + 2 * i] = UpperDigits[(frame.data[i] \div 16) + 1]
                     /\ v[n + 2 + 2 * i] = UpperDigits[(frame.data[i] % 16) + 1]
               /\ \A j \in 1..Len(v) : (v[j] = CR) <=> (j = Len(v))

\* the frame of the second encoding scenario: extended id 0x1ABCDEF, no data
Scenario2 ==
    [id |-> 28036591, dlc |-> 0, timestamp |-> undefined, data |-> <<>>,
     is_ext_id |-> TRUE, is_remote |-> FALSE]

\* C13, as claimed: _packFrame of that frame returns "T001ABCDEF0\r".
C13_AsClaimed ==
    (packed.called /\ frame = Scenario2) =>
        /\ packed.ok
        /\ packed.value = <<"T","0","0","1","A","B","C","D","E","F","0",CR>>

\* C13, amended: _packFrame of that frame returns "T01abcdef0\r": the id
\* on eight digits, its letters in lower case.
C13_Scenario2 ==
    (packed.called /\ frame = Scenario2) =>
        /\ packed.ok
        /\ packed.value = <<"T","0","1","a","b","c","d","e","f","0",CR>>

\* _packFrame has been called on the frame of the scenario
C13_Witness == packed.called /\ frame = Scenario2

\* C14: when all that was received, from an empty buffer, is one well-formed
\* command and its "\r", then however it was cut into chunks
\* recvFrameCallback has been invoked exactly once, with the frame that
\* passing the whole command in one call delivers.
C14_SplitSingle ==
    \A c \in StreamCmds :
        (WellFormed(c) /\ fed = c \o <<CR>>) =>
            LET whole == _serialRecvCallback(slcan(<<>>, 0, <<>>), fed, 0).self.calls
            IN  /\ Len(delivered) = 1
                /\ Len(whole) = 1
                /\ Payload(delivered[1]) = Payload(whole[1])

\* a is b with elements left out
RECURSIVE IsSubseq(_, _)
IsSubseq(a, b) ==
    IF a = <<>> THEN TRUE
    ELSE IF b = <<>> THEN FALSE
    ELSE IF Head(a) = Head(b) THEN IsSubseq(Tail(a), Tail(b))
    ELSE IsSubseq(a, Tail(b))

IsSuffix(a, b) == Len(a) <= Len(b) /\ a = SubSeq(b, Len(b) - Len(a) + 1, Len(b))

\* what follows the last "\r" of bytes (all of it when there is none)
AfterLastCR(bytes) ==
    LET crs == {i \in 1..Len(bytes) : bytes[i] = CR}
    IN  IF crs = {} THEN bytes
        ELSE SubSeq(bytes, (CHOOSE i \in crs : \A j \in crs : j <= i) + 1, Len(bytes))

\* the frames of the commands that bytes terminates, in the order of their
\* terminators; cmd is the command in progress
RECURSIVE FramesOf(_, _)
FramesOf(bytes, cmd) ==
    IF bytes = <<>> THEN <<>>
    ELSE IF Head(bytes) # CR THEN FramesOf(Tail(bytes), Append(cmd, Head(bytes)))
    ELSE IF _parseFrame(cmd).ok
    THEN <<Payload(_parseFrame(cmd).value)>> \o FramesOf(Tail(bytes), <<>>)
    ELSE FramesOf(Tail(bytes), <<>>)

\* the bytes a step passes to _serialRecvCallback
Chunk == SubSeq(fed', Len(fed) + 1, Len(fed'))

\* the frames a step hands to recvFrameCallback
NewCalls == SubSeq(delivered', Len(delivered) + 1, Len(delivered'))

\* C17: a call of _serialRecvCallback only adds invocations of
\* recvFrameCallback after the earlier ones, at most one per "\r" of its
\* chunk and none for a chunk without "\r", and their frames are frames of
\* commands the chunk terminates, in the order of the terminators.
C17_Delivery ==
    [][/\ Len(delivered') >= Len(delivered)
       /\ SubSeq(delivered', 1, Len(delivered)) = delivered
       /\ Len(NewCalls) <= Terminators(Chunk)
       /\ IsSubseq(Payloads(NewCalls), FramesOf(_recv_str \o Chunk, <<>>))]_vars

\* two different frames have been delivered, one after the other
C17_Witness ==
    Len(delivered) = 2 /\ Payload(delivered[1]) # Payload(delivered[2])

\* C18: after a call of _serialRecvCallback that ended on a "\r", by
\* reaching the end of its chunk or by the throw of _parseFrame, the buffer
\* is empty and _recv_count is 0; the buffer never holds a "\r", and holds
\* nothing but the last of the bytes that follow the last "\r".
C18_BufferReset ==
    [][/\ (Chunk # <<>> /\ (Chunk[Len(Chunk)] = CR \/ uncaught' # uncaught))
              => (_recv_str' = <<>> /\ _recv_count' = 0)
       /\ \A k \in 1..Len(_recv_str') : _recv_str'[k] # CR
       /\ IsSuffix(_recv_str', AfterLastCR(_recv_str \o Chunk))]_vars

\* a command has failed to parse with characters in the buffer, another
\* has been delivered, and the buffer is empty
C18_Witness ==
    /\ uncaught # <<>>
    /\ delivered # <<>>
    /\ \E i \in 1..Len(fed) : fed[i] = "x"
    /\ _recv_str = <<>> /\ _recv_count = 0

\* the chrome.serial.send calls made on connection c, in order
WritesOn(c) == SelectSeq(written, LAMBDA w : w.connectionId = c)

\* the chrome.serial.send calls the first k calls of send made
RECURSIVE SumWrote(_)
SumWrote(k) == IF k = 0 THEN 0 ELSE SumWrote(k - 1) + sends[k].wrote

\* C15: a call of send on an instance that has no established connection
\* (open not called yet, its connect request not answered yet, or answered
\* with a failure) throws the not-connected error and makes no
\* chrome.serial.send call.
C15_NotConnected ==
    \A k \in 1..Len(sends) :
        ~sends[k].established =>
            /\ ~sends[k].result.ok
            /\ sends[k].result.error = NotConnected
            /\ sends[k].wrote = 0

\* send was called after open's connect request was answered with a failure
C15_Witness ==
    \E k \in 1..Len(sends) :
        /\ sends[k].opened /\ ~sends[k].waiting /\ ~sends[k].established
        /\ ~sends[k].result.ok

\* C16: on every connection the first write is "S<speed>\r" with the speed of
\* the instance that opened it, the second is "O\r", and every later write
\* is a frame command; nothing is written on anything but an established
\* connection, and the writes are two per established connection plus the
\* writes of send, so an answer that reports a failure wrote nothing.
C16_OpenCommands ==
    /\ \A k \in 1..Len(written) : written[k].connectionId \in 1..Len(conns)
    /\ \A c \in 1..Len(conns) :
          LET ws == WritesOn(c)
          IN  /\ Len(ws) >= 2
              /\ ws[1].data = <<"S", LowerDigits[Speed[Owner(c)] + 1], CR>>
              /\ ws[2].data = <<"O", CR>>
              /\ \A k \in 3..Len(ws) : HasType(ws[k].data)
    /\ Len(written) = 2 * Len(conns) + SumWrote(Len(sends))

\* one connect request failed, another succeeded, and send has written a
\* frame command on the connection
C16_Witness ==
    /\ Len(listeners) > Len(pending) + Len(conns)
    /\ \E c \in 1..Len(conns) : Len(WritesOn(c)) = 3

\* each of the two instances has called open once and has its connection
TwoOpen ==
    /\ Len(listeners) = 2 /\ listeners[1] # listeners[2]
    /\ Len(conns) = 2

\* C19: with two instances open on two connections, the buffer of each holds
\* only bytes received on its own connection and its recvFrameCallback has
\* only been given frames of commands received on its own connection.
C19_NoCrossTalk ==
    TwoOpen =>
        \A i \in Instances :
            LET c == CHOOSE c \in ConnsOf(i) : TRUE
            IN  /\ IsSuffix(inst[i]._recv_str, AfterLastCR(conns[c].got))
                /\ IsSubseq(Payloads(inst[i].calls), FramesOf(conns[c].got, <<>>))

\* open has only been called on instance i, at least once
OnlyOpened(i) ==
    /\ listeners # <<>>
    /\ \A k \in 1..Len(listeners) : listeners[k] = i

\* C20: when open has been called on one instance only, any number of times,
\* and every byte the devices sent has been received, recvFrameCallback has
\* been invoked once per command sent.
C20_OncePerCommand ==
    \A i \in Instances :
        (OnlyOpened(i) /\ \A c \in 1..Len(conns) : conns[c].rx = <<>>) =>
            Len(inst[i].calls) = SumLines(Len(conns))

====
